---- MODULE Spec2Model ----
(***************************************************************************)
(* Greedy Respiration Optimization Algorithm (GROA.py).                    *)
(*                                                                         *)
(* Real numbers are kept exactly on a fixed-point grid:                    *)
(*   a coordinate c stands for the real c / Scale;                         *)
(*   a penalty    q stands for the real q / (2 * Scale);                   *)
(*   an objective f stands for the real f / (2 * Scale * Scale);           *)
(*   a pressure   <<n, d>> stands for the real n / d.                      *)
(* Random draws are the inputs of the run.  A draw is named by the grid    *)
(* displacement it produces, and ranges over exactly the displacements     *)
(* that some value of the half-open interval of the draw produces.         *)
(* Python indices are 0-based and are kept 0-based inside fronts; the      *)
(* element of index i of an array a is a[i + 1].                           *)
(***************************************************************************)
EXTENDS Integers, Sequences, FiniteSets, TLC

\* ---------------------------------------------------------------- bounds
Scale == 2
MaxPop == 2
MaxIter == 3
MaxVal == 2
MaxSortLen == 3
MaxVecLen == 2
MaxEvalLen == 1

\* ------------------------------------------------------ program constants
DefaultDim == 3
PenaltyWeight == 1000
NumObjectives == 2

VARIABLES pop_size, dim, max_iter, pc, err, pop, t, pressure,
          best_indices, best, best_archive, final_obj, final_feas,
          fn, args, ret, returned

groaVars == <<pop_size, dim, max_iter, pc, err, pop, t, pressure,
              best_indices, best, best_archive, final_obj, final_feas>>
vars == <<pop_size, dim, max_iter, pc, err, pop, t, pressure,
          best_indices, best, best_archive, final_obj, final_feas,
          fn, args, ret, returned>>

\* ---------------------------------------------------------------- helpers
Max(a, b) == IF a >= b THEN a ELSE b
Min(a, b) == IF a <= b THEN a ELSE b
Sq(v) == v * v
Range(s) == {s[i] : i \in 1..Len(s)}

\* The set of sequences s with s[i] \in R[i], for R a sequence of sets.
RECURSIVE Product(_)
Product(R) ==
    IF R = <<>> THEN {<<>>}
    ELSE {<<h>> \o tl : h \in Head(R), tl \in Product(Tail(R))}

\* The arrays whose cell (i, k) is drawn from the set cells[i][k].
ArraysOf(cells) ==
    Product([i \in 1..Len(cells) |-> Product(cells[i])])

\* ------------------------------------------------------ objective functions
\* x[0]**2 + x[1]**2 + x[2]**2, in units of 1 / (2 Scale^2)
objective_1(x) == 2 * (Sq(x[1]) + Sq(x[2]) + Sq(x[3]))

\* (x[0]-2)**2 + (x[1]-1)**2 + x[2]**2, in units of 1 / (2 Scale^2)
objective_2(x) == 2 * (Sq(x[1] - 2 * Scale) + Sq(x[2] - Scale) + Sq(x[3]))

\* max(0, x[0] + x[1] - 2.5) + max(0, 0.5 - x[2]), in units of 1 / (2 Scale)
penalty(x) ==
    Max(0, 2 * (x[1] + x[2]) - 5 * Scale) + Max(0, Scale - 2 * x[3])

\* x[0], x[1], x[2] of an individual with fewer than three coordinates
RaisesIndexError(population) ==
    \E i \in 1..Len(population) : Len(population[i]) < 3

penalized_mut(f, pen) == f + pen * Scale
\* f + 1000 * pen, with pen brought to the units of f
penalized(f, pen) == f + PenaltyWeight * pen * Scale

evaluate_one(ind) ==
    LET f1 == objective_1(ind)
        f2 == objective_2(ind)
        pen == penalty(ind)
    IN  IF pen = 0
        THEN [obj |-> <<f1, f2>>, feasible |-> TRUE]
        ELSE [obj |-> <<penalized(f1, pen), penalized(f2, pen)>>,
              feasible |-> FALSE]

evaluate_population(population) ==
    [obj_vals  |-> [i \in 1..Len(population) |-> evaluate_one(population[i]).obj],
     feasibles |-> [i \in 1..Len(population) |-> evaluate_one(population[i]).feasible]]

\* ------------------------------------------------------ non-dominated sort
dominates_mut(a, b) == \A k \in 1..Len(a) : a[k] <= b[k]
dominates(a, b) ==
    /\ \A k \in 1..Len(a) : a[k] <= b[k]
    /\ \E k \in 1..Len(a) : a[k] < b[k]

front_of_mut(objectives, remaining) ==
    SelectSeq(remaining,
              LAMBDA i : ~ \E j \in Range(remaining) :
                  i # j /\ dominates(objectives[i + 1], objectives[j + 1]))
front_of(objectives, remaining) ==
    SelectSeq(remaining,
              LAMBDA i : ~ \E j \in Range(remaining) :
                  i # j /\ dominates(objectives[j + 1], objectives[i + 1]))

RECURSIVE sort_loop(_, _)
sort_loop(objectives, remaining) ==
    IF remaining = <<>> THEN <<>>
    ELSE LET front == front_of(objectives, remaining)
         IN  <<front>> \o
             sort_loop(objectives,
                       SelectSeq(remaining, LAMBDA i : i \notin Range(front)))

range_list(n) == [i \in 1..n |-> i - 1]

pareto_sort_mut(objectives) ==
    IF range_list(Len(objectives)) = <<>> THEN <<>>
    ELSE <<front_of(objectives, range_list(Len(objectives)))>>
pareto_sort(objectives) == sort_loop(objectives, range_list(Len(objectives)))

\* ---------------------------------------------------------- phase operators
update_pressure_mut(iteration, maxiter) == <<maxiter - (iteration + 1), maxiter>>
update_pressure(iteration, maxiter) == <<maxiter - iteration, maxiter>>

clip_mut(population, lo, hi) ==
    [i \in 1..Len(population) |->
        [k \in 1..Len(population[i]) |-> Min(population[i][k], hi)]]
clip(population, lo, hi) ==
    [i \in 1..Len(population) |->
        [k \in 1..Len(population[i]) |-> Min(Max(population[i][k], lo), hi)]]

\* np.random.rand: a value of [0, 1)
RandSteps == 0..(Scale - 1)

\* p * u for u a value of [-1, 1)
UniformSteps(p) ==
    {s \in (0 - Scale)..Scale :
        /\ 0 - p[1] * Scale <= s * p[2]
        /\ s * p[2] < p[1] * Scale}

\* p * diff * r for r a value of [0, 1)
FractionSteps(p, diff) ==
    {s \in (0 - Scale)..Scale :
        \/ s = 0
        \/ diff > 0 /\ s > 0 /\ s * p[2] < p[1] * diff
        \/ diff < 0 /\ s < 0 /\ s * p[2] > p[1] * diff}

initialize_population(n, d) ==
    ArraysOf([i \in 1..n |-> [k \in 1..d |-> RandSteps]])

\* the draws of np.random.uniform(-1, 1, pop.shape), scaled by the pressure
inflow_draws(population, p) ==
    ArraysOf([i \in 1..Len(population) |->
                [k \in 1..Len(population[i]) |-> UniformSteps(p)]])

inflow_phase(population, p, step) ==
    [i \in 1..Len(population) |->
        [k \in 1..Len(population[i]) |-> population[i][k] + step[i][k]]]

\* the draws of np.random.rand(*pop.shape), scaled by pressure * (best - pop)
outflow_draws(population, b, p) ==
    ArraysOf([i \in 1..Len(population) |->
                [k \in 1..Len(population[i]) |->
                    FractionSteps(p, b[k] - population[i][k])]])

outflow_phase(population, b, p, step) ==
    [i \in 1..Len(population) |->
        [k \in 1..Len(population[i]) |-> population[i][k] + step[i][k]]]

\* pop[best_indices]
take(population, indices) ==
    [n \in 1..Len(indices) |-> population[indices[n] + 1]]

\* ------------------------------------------------------------------- groa
PopSizes == (0 - 1)..MaxPop
Dims == (0 - 1)..DefaultDim
Iters == (0 - 1)..MaxIter

Init ==
    /\ pop_size \in PopSizes
    /\ dim \in Dims
    /\ max_iter \in Iters
    /\ pc = "Initializing"
    /\ err = ""
    /\ pop = <<>>
    /\ t = 0 - 1
    /\ pressure = <<0, 0>>
    /\ best_indices = <<>>
    /\ best = <<>>
    /\ best_archive = <<>>
    /\ final_obj = <<>>
    /\ final_feas = <<>>
    /\ fn = "none"
    /\ args = <<>>
    /\ ret = <<>>
    /\ returned = FALSE

\* pop = initialize_population(pop_size, dim); best_archive = []
Initialize ==
    /\ pc = "Initializing"
    /\ IF pop_size < 0 \/ dim < 0
       THEN /\ pc' = "Raised"
            /\ err' = "ValueError"
            /\ pop' = pop
       ELSE /\ pc' = "LoopHead"
            /\ err' = err
            /\ pop' \in initialize_population(pop_size, dim)
    /\ best_archive' = <<>>
    /\ UNCHANGED <<pop_size, dim, max_iter, t, pressure, best_indices, best,
                   final_obj, final_feas, fn, args, ret, returned>>

\* for t in range(max_iter): pressure, evaluation, ranking, choice of best
Rank ==
    /\ pc = "LoopHead"
    /\ t + 1 < max_iter
    /\ t' = t + 1
    /\ pressure' = update_pressure(t + 1, max_iter)
    /\ IF RaisesIndexError(pop)
       THEN /\ pc' = "Raised"
            /\ err' = "IndexError"
            /\ UNCHANGED <<best_indices, best>>
       ELSE LET ev == evaluate_population(pop)
                fronts == pareto_sort(ev.obj_vals)
            IN  IF fronts = <<>>
                THEN /\ pc' = "Raised"
                     /\ err' = "IndexError"
                     /\ UNCHANGED <<best_indices, best>>
                ELSE /\ pc' = "Inflow"
                     /\ err' = err
                     /\ best_indices' = fronts[1]
                     /\ \E r \in 1..Len(fronts[1]) :
                            best' = take(pop, fronts[1])[r]
    /\ UNCHANGED <<pop_size, dim, max_iter, pop, best_archive,
                   final_obj, final_feas, fn, args, ret, returned>>

\* pop = inflow_phase(pop, pressure); pop = np.clip(pop, 0, 1)
Inflow ==
    /\ pc = "Inflow"
    /\ \E step \in inflow_draws(pop, pressure) :
          pop' = clip(inflow_phase(pop, pressure, step), 0, Scale)
    /\ pc' = "Outflow"
    /\ UNCHANGED <<pop_size, dim, max_iter, err, t, pressure, best_indices,
                   best, best_archive, final_obj, final_feas, fn, args, ret, returned>>

Outflow_mut ==
    /\ pc = "Outflow"
    /\ pressure' = update_pressure(t, max_iter)
    /\ \E step \in outflow_draws(pop, best, pressure') :
          pop' = clip(outflow_phase(pop, best, pressure', step), 0, Scale)
    /\ best_archive' = take(pop, best_indices)
    /\ pc' = "LoopHead"
    /\ UNCHANGED <<pop_size, dim, max_iter, err, t, best_indices, best,
                   final_obj, final_feas, fn, args, ret, returned>>

\* pressure again; pop = outflow_phase(pop, best, pressure); clip; archive
Outflow ==
    /\ pc = "Outflow"
    /\ pressure' = update_pressure(t, max_iter)
    /\ \E step \in outflow_draws(pop, best, pressure') :
          pop' = clip(outflow_phase(pop, best, pressure', step), 0, Scale)
    /\ best_archive' = take(pop', best_indices)
    /\ pc' = "LoopHead"
    /\ UNCHANGED <<pop_size, dim, max_iter, err, t, best_indices, best,
                   final_obj, final_feas, fn, args, ret, returned>>

\* final_obj, _ = evaluate_population(best_archive); return
Finish ==
    /\ pc = "LoopHead"
    /\ ~ (t + 1 < max_iter)
    /\ final_obj' = evaluate_population(best_archive).obj_vals
    /\ final_feas' = evaluate_population(best_archive).feasibles
    /\ pc' = "Returned"
    /\ UNCHANGED <<pop_size, dim, max_iter, err, pop, t, pressure,
                   best_indices, best, best_archive, fn, args, ret, returned>>

Next ==
    \/ Initialize
    \/ Rank
    \/ Inflow
    \/ Outflow
    \/ Finish

Spec == Init /\ [][Next]_vars

\* ------------------------------------------- calls of the pure functions
\* No run of groa is in progress while a function is called on its own.
Idle ==
    /\ pop_size = 0
    /\ dim = 0
    /\ max_iter = 0
    /\ pc = "Idle"
    /\ err = ""
    /\ pop = <<>>
    /\ t = 0 - 1
    /\ pressure = <<0, 0>>
    /\ best_indices = <<>>
    /\ best = <<>>
    /\ best_archive = <<>>
    /\ final_obj = <<>>
    /\ final_feas = <<>>

Values == 0..MaxVal
VectorsOf(len) == Product([k \in 1..len |-> Values])

\* dominates(a, b) on every ordered pair of three vectors of equal length
InitDominates ==
    /\ Idle
    /\ fn = "dominates"
    /\ \E len \in 1..MaxVecLen :
          args \in Product(<<VectorsOf(len), VectorsOf(len), VectorsOf(len)>>)
    /\ ret = <<>>
    /\ returned = FALSE

CallDominates ==
    /\ fn = "dominates"
    /\ ~ returned
    /\ ret' = [aa |-> dominates(args[1], args[1]),
               ab |-> dominates(args[1], args[2]),
               ba |-> dominates(args[2], args[1]),
               bc |-> dominates(args[2], args[3]),
               ac |-> dominates(args[1], args[3])]
    /\ returned' = TRUE
    /\ UNCHANGED <<groaVars, fn, args>>

SpecDominates == InitDominates /\ [][CallDominates]_vars

\* pareto_sort on an array of 0..MaxSortLen objective vectors
InitSort ==
    /\ Idle
    /\ fn = "pareto_sort"
    /\ \E n \in 0..MaxSortLen :
          args \in Product([i \in 1..n |-> VectorsOf(NumObjectives)])
    /\ ret = <<>>
    /\ returned = FALSE

CallSort ==
    /\ fn = "pareto_sort"
    /\ ~ returned
    /\ ret' = pareto_sort(args)
    /\ returned' = TRUE
    /\ UNCHANGED <<groaVars, fn, args>>

SpecSort == InitSort /\ [][CallSort]_vars

\* evaluate_population on individuals of three coordinates in [0, 2]
InitEvaluate ==
    /\ Idle
    /\ fn = "evaluate_population"
    /\ \E n \in 1..MaxEvalLen :
          args \in ArraysOf([i \in 1..n |-> [k \in 1..DefaultDim |-> 0..(2 * Scale)]])
    /\ ret = <<>>
    /\ returned = FALSE

CallEvaluate ==
    /\ fn = "evaluate_population"
    /\ ~ returned
    /\ ret' = evaluate_population(args)
    /\ returned' = TRUE
    /\ UNCHANGED <<groaVars, fn, args>>

SpecEvaluate == InitEvaluate /\ [][CallEvaluate]_vars

\* ------------------------------------------------------------------ claims
Indices(objectives) == 0..(Len(objectives) - 1)

\* a is at least as good as b in every objective and differs from it
Better(a, b) == (\A k \in 1..Len(a) : a[k] <= b[k]) /\ a # b

NonDominated(objectives) ==
    {i \in Indices(objectives) :
        ~ \E j \in Indices(objectives) :
            j # i /\ Better(objectives[j + 1], objectives[i + 1])}

Occurrences(fronts, i) ==
    Cardinality(UNION {{<<f, k>> : k \in {n \in 1..Len(fronts[f]) : fronts[f][n] = i}} :
                       f \in 1..Len(fronts)})

\* C1: the fronts returned by pareto_sort partition the index set 0..N-1:
\* every front entry is an index of the array, and every index of the array
\* occurs in exactly one front, exactly once.
C1_FrontsPartition ==
    (fn = "pareto_sort" /\ returned) =>
        /\ \A f \in 1..Len(ret) : Range(ret[f]) \subseteq Indices(args)
        /\ \A i \in Indices(args) : Occurrences(ret, i) = 1

C1_Witness ==
    /\ fn = "pareto_sort"
    /\ returned
    /\ Len(args) = 3
    /\ Len(ret) = 2
    /\ \E f \in 1..Len(ret) : Len(ret[f]) = 2

\* C2: for a non-empty array, fronts[0] holds exactly the indices whose
\* objective vector no other index of the array dominates.
C2_FrontZeroNonDominated ==
    (fn = "pareto_sort" /\ returned /\ Len(args) >= 1) =>
        /\ Len(ret) >= 1
        /\ Range(ret[1]) = NonDominated(args)

C2_Witness ==
    /\ fn = "pareto_sort"
    /\ returned
    /\ Len(args) = 3
    /\ Cardinality(NonDominated(args)) = 2
    /\ Range(ret[1]) = NonDominated(args)
    /\ Len(ret) = 2

\* C3: dominates is a strict partial order: dominates(a, a) is false,
\* dominates(a, b) excludes dominates(b, a), and dominates(a, b) with
\* dominates(b, c) gives dominates(a, c).
C3_StrictPartialOrder ==
    (fn = "dominates" /\ returned) =>
        /\ ~ ret.aa
        /\ ret.ab => ~ ret.ba
        /\ (ret.ab /\ ret.bc) => ret.ac

C3_Witness ==
    /\ fn = "dominates"
    /\ returned
    /\ Len(args[1]) = 2
    /\ ret.ab
    /\ ret.bc
    /\ ret.ac
    /\ ~ ret.ba

\* C5: evaluate_population marks an individual feasible exactly when its
\* penalty is zero; a feasible individual keeps its raw objective values and
\* an infeasible one gets each raw objective plus 1000 times its penalty.
\* (f / (2 Scale^2) = raw / (2 Scale^2) + 1000 * q / (2 Scale) is
\* f = raw + 1000 * q * Scale in the units of the model.)
C5_FeasibilityAndPenalty ==
    (fn = "evaluate_population" /\ returned) =>
        /\ Len(ret.obj_vals) = Len(args)
        /\ Len(ret.feasibles) = Len(args)
        /\ \A i \in 1..Len(args) :
            LET x == args[i]
                raw == <<objective_1(x), objective_2(x)>>
            IN  /\ ret.feasibles[i] <=> (penalty(x) = 0)
                /\ ret.feasibles[i] => ret.obj_vals[i] = raw
                /\ ~ ret.feasibles[i] =>
                     \A k \in 1..NumObjectives :
                        ret.obj_vals[i][k] = raw[k] + 1000 * penalty(x) * Scale

C5_Witness ==
    /\ fn = "evaluate_population"
    /\ returned
    /\ ~ ret.feasibles[1]
    /\ 2 * (args[1][1] + args[1][2]) > 5 * Scale
    /\ 2 * args[1][3] < Scale
    /\ ret.obj_vals[1][1] > objective_1(args[1])

\* ------------------------------------------------------- claims about groa
Cells(population) ==
    UNION {Range(population[i]) : i \in 1..Len(population)}

Initialized == pc # "Initializing" /\ err # "ValueError"

\* C4: after initialization and after every Inflow and Outflow application
\* with its clamp, the population has pop_size individuals of dim coordinates
\* and every coordinate lies in [0, 1].
C4_PopulationInUnitCube ==
    (pc # "Idle" /\ Initialized) =>
        /\ Len(pop) = pop_size
        /\ \A i \in 1..Len(pop) : Len(pop[i]) = dim
        /\ Cells(pop) \subseteq 0..Scale

\* both clamps have acted on the way: a coordinate sits on each border
C4_Witness ==
    /\ pc = "LoopHead"
    /\ t >= 1
    /\ pop_size = MaxPop
    /\ 0 \in Cells(pop)
    /\ Scale \in Cells(pop)

\* C6: the objective vectors returned for the individuals evaluated feasible
\* are mutually non-dominated.
C6_ReturnedFeasibleNonDominated ==
    (pc = "Returned" /\ pop_size >= 1 /\ max_iter >= 1) =>
        \A i, j \in 1..Len(final_obj) :
            (i # j /\ final_feas[i] /\ final_feas[j]) =>
                ~ Better(final_obj[i], final_obj[j])

\* C7: a call with a non-positive population size, dimension or iteration
\* count raises before any iteration begins and returns no result.
C7_ConfigurationErrorSignalled ==
    (pc # "Idle" /\ (pop_size <= 0 \/ dim <= 0 \/ max_iter <= 0)) =>
        /\ pc \in {"Initializing", "LoopHead", "Raised"}
        /\ pc = "Raised" => t = 0 - 1

\* C8: with pop_size >= 1, dim >= 1 and max_iter >= 1 the run never aborts;
\* it returns after the loop body has run for t = 0..max_iter-1.
C8_RunReturns ==
    (pc # "Idle" /\ pop_size >= 1 /\ dim >= 1 /\ max_iter >= 1) =>
        /\ pc # "Raised"
        /\ pc = "Returned" => t = max_iter - 1

\* The part of C8 that the code does satisfy: with at least three
\* coordinates the run never aborts, every step moves it forward along a
\* bounded measure, no phase is left without a draw to take, and the run
\* returns after exactly max_iter passes of the loop body.
Stage ==
    CASE pc = "Initializing" -> 0
      [] pc = "Inflow" -> 1
      [] pc = "Outflow" -> 2
      [] pc = "LoopHead" -> 3
      [] OTHER -> 4

Progress == IF pc \in {"Returned", "Raised"} THEN 4 * (MaxIter + 2) ELSE 4 * (t + 1) + Stage

RunsToCompletionValue ==
    (pc # "Idle" /\ pop_size >= 1 /\ dim >= DefaultDim /\ max_iter >= 1) =>
        /\ pc # "Raised"
        /\ pc = "Inflow" => inflow_draws(pop, pressure) # {}
        /\ pc = "Outflow" => outflow_draws(pop, best, pressure) # {}
        /\ pc = "Returned" => t = max_iter - 1
        /\ Progress <= 4 * (MaxIter + 2)

RunsToCompletion ==
    [] RunsToCompletionValue /\ [][Progress' > Progress]_vars

\* the pressure p of the state is below the pressure q
Below(p, q) == p[1] * q[2] < q[1] * p[2]

InIteration == pc \in {"Inflow", "Outflow"} \/ (pc \in {"LoopHead", "Returned"} /\ t >= 0)

C9_PressureValue ==
    InIteration =>
        /\ pressure[2] > 0
        /\ pressure[1] * max_iter = (max_iter - t) * pressure[2]
        /\ 0 < pressure[1]
        /\ pressure[1] <= pressure[2]
        /\ t = 0 => pressure[1] = pressure[2]

C9_PressureStep ==
    /\ (pc = "LoopHead" /\ pc' = "Inflow" /\ t >= 0) => Below(pressure', pressure)
    /\ (pc = "Inflow" /\ pc' = "Outflow") =>
          \A i \in 1..Len(pop) : \A k \in 1..Len(pop[i]) :
              \/ pop'[i][k] \in {0, Scale}
              \/ /\ (pop'[i][k] - pop[i][k]) * max_iter < (max_iter - t) * Scale
                 /\ (pop[i][k] - pop'[i][k]) * max_iter <= (max_iter - t) * Scale
    /\ (pc = "Outflow" /\ pc' = "LoopHead") =>
          /\ pressure' = pressure
          /\ \A i \in 1..Len(pop) : \A k \in 1..Len(pop[i]) :
                LET diff == best[k] - pop[i][k]
                    moved == pop'[i][k] - pop[i][k]
                IN  \/ moved = 0
                    \/ diff > 0 /\ moved > 0 /\ moved * max_iter < (max_iter - t) * diff
                    \/ diff < 0 /\ moved < 0 /\ moved * max_iter > (max_iter - t) * diff

\* C9: in iteration t the Inflow and the Outflow sub-step both use the
\* pressure 1 - t / max_iter; it is 1 at t = 0, above 0 at t = max_iter - 1
\* and falls strictly from one iteration to the next, so it stays in (0, 1].
C9_PressureSchedule == [] C9_PressureValue /\ [][C9_PressureStep]_vars

C9_Witness ==
    /\ pc = "LoopHead"
    /\ max_iter = MaxIter
    /\ t = max_iter - 1
    /\ 0 < pressure[1]
    /\ pressure[1] < pressure[2]
    /\ \E i \in 1..Len(pop) : pop[i] = best

C10_ArchiveValue ==
    (pc = "Returned" /\ max_iter >= 1) =>
        /\ Len(best_archive) = Len(best_indices)
        /\ Len(best_archive) \in 1..pop_size
        /\ Len(final_obj) = Len(best_archive)
        /\ \A n \in 1..Len(best_indices) :
              best_archive[n] = pop[best_indices[n] + 1]

C10_ArchiveStep ==
    /\ (pc = "LoopHead" /\ pc' = "Inflow") =>
          /\ Range(best_indices') = NonDominated(evaluate_population(pop).obj_vals)
          /\ \E i \in Range(best_indices') : best' = pop[i + 1]
    /\ (pc = "Inflow" /\ pc' = "Outflow") =>
          /\ best_indices' = best_indices
          /\ best' = best
    /\ (pc = "Outflow" /\ pc' = "LoopHead") =>
          /\ best_indices' = best_indices
          /\ best' = best
          /\ Len(best_archive') = Len(best_indices)
          /\ \A n \in 1..Len(best_indices) :
                best_archive'[n] = pop'[best_indices[n] + 1]

\* C10: at the end of every iteration the archive is the updated population
\* at the Front-0 index positions ranked on the population of the start of
\* that iteration (indices and best are not recomputed after the updates);
\* the returned archive has between 1 and pop_size individuals, one per
\* Front-0 index, and one objective vector per archived individual.
C10_StaleArchive == [] C10_ArchiveValue /\ [][C10_ArchiveStep]_vars

\* the archived positions are no longer the first front of the population
C10_Witness ==
    /\ pc = "Returned"
    /\ Len(best_archive) = 2
    /\ Range(best_indices) # NonDominated(evaluate_population(pop).obj_vals)

====
